---- MODULE Spec2Model ----
(***************************************************************************)
(* EMSA-PSS (PSSR) encoding and verification, and the two streaming        *)
(* adapters PSSR and PSSR_Raw, of                                          *)
(*   src/Crypto-libs/botan-master/src/lib/pk_pad/emsa_pssr/pssr.cpp        *)
(*                                                                         *)
(* Bytes are naturals 0..255, byte vectors are sequences (index 1 is the   *)
(* C++ index 0).  The hash function, MGF1, high_bit and buffer_insert live *)
(* outside pssr.cpp; they are modelled from their contracts, with a small  *)
(* deterministic digest standing for the hash primitive.                   *)
(***************************************************************************)
EXTENDS Naturals, Sequences, FiniteSets

(* ------------------------------ bounds -------------------------------- *)

\* largest explicitly configured salt size (PSSR(hash, salt_size))
MaxSalt == 2

\* output_bits / key_bits range up to this many bits above the largest floor
ExtraBits == 1

\* most bytes passed to update between two raw_data calls
MaxFed == 3

(* ------------------------- program constants -------------------------- *)

\* hash.output_length() of the hash the adapters own
HASH_SIZE == 2

\* the fixed trailer byte 0xBC
TRAILER == 188

(* ----------------------------- byte helpers --------------------------- *)

Pow2(n) == 2^n

Min(a, b) == IF a < b THEN a ELSE b

Zeros(n) == [i \in 1..n |-> 0]

\* ceil(bits / 8)
CeilBytes(bits) == (bits + 7) \div 8

\* bit i (0 = least significant) of the byte a
BitOf(a, i) == (a \div Pow2(i)) % 2

\* a ^ b on bytes
XorByte(a, b) ==
    LET x(i) == ((BitOf(a, i) + BitOf(b, i)) % 2) * Pow2(i)
    IN  x(0) + x(1) + x(2) + x(3) + x(4) + x(5) + x(6) + x(7)

\* a & b on bytes
AndByte(a, b) ==
    LET x(i) == (BitOf(a, i) * BitOf(b, i)) * Pow2(i)
    IN  x(0) + x(1) + x(2) + x(3) + x(4) + x(5) + x(6) + x(7)

\* 0xFF >> k
TopMask(k) == 255 \div Pow2(k)

\* high_bit(n): 1 + the index of the highest set bit, 0 for n = 0
high_bit(n) ==
    IF n = 0 THEN 0
    ELSE 1 + CHOOSE i \in 0..7 : n \div Pow2(i) = 1

\* buffer_insert(buf, buf_offset, input): input copied over buf from buf_offset
\* (0-based), cut to what fits
buffer_insert(buf, buf_offset, input) ==
    LET to_copy == Min(Len(input), Len(buf) - buf_offset)
    IN  [i \in 1..Len(buf) |->
            IF i > buf_offset /\ i <= buf_offset + to_copy
            THEN input[i - buf_offset]
            ELSE buf[i]]

(* --------------------------- hash function ---------------------------- *)
(* A hash object is [buf, calls]: the input fed since the last final(),    *)
(* and the number of update/final calls made on it (instrumentation).      *)

RECURSIVE HashFold(_, _)
HashFold(bytes, acc) ==
    IF bytes = <<>> THEN acc
    ELSE HashFold(Tail(bytes), (acc * 31 + Head(bytes) + 17) % 256)

\* the digest of a byte string: HASH_SIZE bytes, a deterministic function of
\* the whole input
Digest(bytes) == [i \in 1..HASH_SIZE |-> HashFold(bytes, (89 * i) % 256)]

NewHash(buf) == [buf |-> buf, calls |-> 0]

HashUpdate(hash, bytes) ==
    [buf |-> hash.buf \o bytes, calls |-> hash.calls + 1]

\* final(): the digest, and the hash reset
HashFinal(hash) ==
    [digest |-> Digest(hash.buf),
     hash   |-> [buf |-> <<>>, calls |-> hash.calls + 1]]

\* update_be(counter): the counter as 4 big-endian bytes
BE32(counter) ==
    << (counter \div 16777216) % 256, (counter \div 65536) % 256,
       (counter \div 256) % 256, counter % 256 >>

\* the loop of mgf1_mask: out[pos..] ^= Hash(in || counter), block by block
RECURSIVE Mgf1Loop(_, _, _, _, _)
Mgf1Loop(hash, in, out, pos, counter) ==
    IF pos >= Len(out) THEN [hash |-> hash, out |-> out]
    ELSE LET f     == HashFinal(HashUpdate(HashUpdate(hash, in), BE32(counter)))
             xored == Min(HASH_SIZE, Len(out) - pos)
             next  == [i \in 1..Len(out) |->
                          IF i > pos /\ i <= pos + xored
                          THEN XorByte(out[i], f.digest[i - pos])
                          ELSE out[i]]
         IN  Mgf1Loop(f.hash, in, next, pos + xored, counter + 1)

\* mgf1_mask(hash, in, in_len, out, out_len)
mgf1_mask(hash, in, out) == Mgf1Loop(hash, in, out, 0, 0)

(* ------------------------------ pss_encode ---------------------------- *)

\* mutant: the floor compared with <= instead of <
EncodeCheck_OffByOne(msg, salt, output_bits) ==
    IF Len(msg) # HASH_SIZE THEN "input length invalid for hash"
    ELSE IF output_bits <= 8 * HASH_SIZE + 8 * Len(salt) + 9
         THEN "output length too small"
         ELSE "none"

\* the two length checks of pss_encode: the Encoding_Error thrown, or "none"
EncodeCheck(msg, salt, output_bits) ==
    IF Len(msg) # HASH_SIZE THEN "input length invalid for hash"
    ELSE IF output_bits < 8 * HASH_SIZE + 8 * Len(salt) + 9
         THEN "output length too small"
         ELSE "none"

\* mutant: the 0x01 separator is never written
EncodeLayout_NoSeparator(output_length, salt) ==
    buffer_insert(Zeros(output_length),
                  output_length - 1 - HASH_SIZE - Len(salt), salt)

\* EM before masking: zeros, 0x01 at output_length - HASH_SIZE - SALT_SIZE - 2,
\* the salt right after it
EncodeLayout(output_length, salt) ==
    LET SALT_SIZE == Len(salt)
        EM0 == [Zeros(output_length)
                   EXCEPT ![output_length - HASH_SIZE - SALT_SIZE - 2 + 1] = 1]
    IN  buffer_insert(EM0, output_length - 1 - HASH_SIZE - SALT_SIZE, salt)

\* mutant: the top bits are left as the mask made them
ClearTopBits_Off(buf, bits) == buf

\* EM[0] &= 0xFF >> (8 * ((bits + 7) / 8) - bits)
ClearTopBits(buf, bits) ==
    [buf EXCEPT ![1] = AndByte(@, TopMask(8 * ((bits + 7) \div 8) - bits))]

\* hash.update(0) eight times, hash.update(msg), hash.update(salt), hash.final()
HashMPrime(hash, msg, salt) ==
    LET RECURSIVE z(_, _)
        z(h, n) == IF n = 0 THEN h ELSE z(HashUpdate(h, <<0>>), n - 1)
    IN  HashFinal(HashUpdate(HashUpdate(z(hash, 8), msg), salt))

pss_encode(hash, msg, salt, output_bits) ==
    LET err == EncodeCheck(msg, salt, output_bits)
    IN  IF err # "none"
        THEN [err |-> err, EM |-> <<>>, hash |-> hash, mgfCalls |-> 0]
        ELSE
        LET output_length == (output_bits + 7) \div 8
            f   == HashMPrime(hash, msg, salt)
            H   == f.digest
            EM1 == EncodeLayout(output_length, salt)
            DBn == output_length - HASH_SIZE - 1
            m   == mgf1_mask(f.hash, H, SubSeq(EM1, 1, DBn))
            EM2 == m.out \o SubSeq(EM1, DBn + 1, output_length)
            EM3 == ClearTopBits(EM2, output_bits)
            EM4 == buffer_insert(EM3, output_length - 1 - HASH_SIZE, H)
            EM5 == [EM4 EXCEPT ![output_length] = TRAILER]
        IN  [err |-> "none", EM |-> EM5, hash |-> m.hash, mgfCalls |-> 1]

(* ------------------------------ pss_verify ---------------------------- *)

\* mutant: a block longer than KEY_BYTES is not rejected
VerifyPrecheck_NoUpper(pss_repr, message_hash, key_bits) ==
    IF key_bits < 8 * HASH_SIZE + 9 THEN "key_bits"
    ELSE IF Len(message_hash) # HASH_SIZE THEN "digest_len"
    ELSE IF Len(pss_repr) <= 1 THEN "coded_len"
    ELSE IF pss_repr[Len(pss_repr)] # TRAILER THEN "trailer"
    ELSE "pass"

\* mutant: the trailer byte is not looked at
VerifyPrecheck_NoTrailer(pss_repr, message_hash, key_bits) ==
    LET KEY_BYTES == (key_bits + 7) \div 8
    IN  IF key_bits < 8 * HASH_SIZE + 9 THEN "key_bits"
        ELSE IF Len(message_hash) # HASH_SIZE THEN "digest_len"
        ELSE IF Len(pss_repr) > KEY_BYTES \/ Len(pss_repr) <= 1 THEN "coded_len"
        ELSE "pass"

\* the four early rejections of pss_verify, in the code's order: the one that
\* fires, or "pass"
VerifyPrecheck(pss_repr, message_hash, key_bits) ==
    LET KEY_BYTES == (key_bits + 7) \div 8
    IN  IF key_bits < 8 * HASH_SIZE + 9 THEN "key_bits"
        ELSE IF Len(message_hash) # HASH_SIZE THEN "digest_len"
        ELSE IF Len(pss_repr) > KEY_BYTES \/ Len(pss_repr) <= 1 THEN "coded_len"
        ELSE IF pss_repr[Len(pss_repr)] # TRAILER THEN "trailer"
        ELSE "pass"

\* coded = pss_repr, left-padded with zero bytes to KEY_BYTES when shorter
PadCoded(pss_repr, KEY_BYTES) ==
    IF Len(pss_repr) < KEY_BYTES
    THEN buffer_insert(Zeros(KEY_BYTES), KEY_BYTES - Len(pss_repr), pss_repr)
    ELSE pss_repr

\* mutant: >= in place of >
TopBitsReject_OffByOne(coded, key_bits) ==
    LET TOP_BITS == 8 * ((key_bits + 7) \div 8) - key_bits
    IN  TOP_BITS >= 8 - high_bit(coded[1])

\* if(TOP_BITS > 8 - high_bit(coded[0])) return false
TopBitsReject(coded, key_bits) ==
    LET TOP_BITS == 8 * ((key_bits + 7) \div 8) - key_bits
    IN  TOP_BITS > 8 - high_bit(coded[1])

\* stands for the return false inside the separator loop: no offset has
\* this value
NoOffset == 256 * 256

\* the separator loop from index j (0-based): the salt_offset it leaves
\* (0: no 0x01 found), or NoOffset
RECURSIVE SeparatorLoop(_, _)
SeparatorLoop(DB, j) ==
    IF j = Len(DB) THEN 0
    ELSE IF DB[j + 1] = 1 THEN j + 1
    ELSE IF DB[j + 1] # 0 THEN NoOffset
    ELSE SeparatorLoop(DB, j + 1)

\* mutant: a non-zero byte before the 0x01 is skipped like padding
RECURSIVE SeparatorLoop_Skip(_, _)
SeparatorLoop_Skip(DB, j) ==
    IF j = Len(DB) THEN 0
    ELSE IF DB[j + 1] = 1 THEN j + 1
    ELSE SeparatorLoop_Skip(DB, j + 1)

SeparatorScan_Skip(DB) == SeparatorLoop_Skip(DB, 0)

SeparatorScan(DB) == SeparatorLoop(DB, 0)

\* mutant: the eight zero bytes of M' are fed to the hash before the checks,
\* so a rejection leaves them pending
VerifyReject_Pending(stage, hash, mgfCalls, DB) ==
    [ok |-> FALSE, stage |-> stage, hash |-> HashUpdate(hash, Zeros(8)),
     mgfCalls |-> mgfCalls, wrote |-> FALSE, salt_size |-> 0, DB |-> DB,
     salt |-> <<>>]

\* what pss_verify returns at a rejection: false, *out_salt_size untouched
VerifyReject(stage, hash, mgfCalls, DB) ==
    [ok |-> FALSE, stage |-> stage, hash |-> hash, mgfCalls |-> mgfCalls,
     wrote |-> FALSE, salt_size |-> 0, DB |-> DB, salt |-> <<>>]

\* lines 106-120: the salt after the separator, H2 and the comparison
VerifyCompare(hash, DB, H, message_hash, salt_offset) ==
    LET salt_size == Len(DB) - salt_offset
        salt      == SubSeq(DB, salt_offset + 1, Len(DB))
        f         == HashMPrime(hash, message_hash, salt)
        ok        == (H = f.digest)
    IN  [ok |-> ok, stage |-> "compare", hash |-> f.hash, mgfCalls |-> 1,
         wrote |-> ok, salt_size |-> salt_size, DB |-> DB, salt |-> salt]

pss_verify(hash, pss_repr, message_hash, key_bits) ==
    LET pre == VerifyPrecheck(pss_repr, message_hash, key_bits)
    IN  IF pre # "pass" THEN VerifyReject(pre, hash, 0, <<>>)
        ELSE
        LET KEY_BYTES == (key_bits + 7) \div 8
            coded     == PadCoded(pss_repr, KEY_BYTES)
        IN  IF TopBitsReject(coded, key_bits)
            THEN VerifyReject("top_bits", hash, 0, <<>>)
            ELSE
            LET DB_size == Len(coded) - HASH_SIZE - 1
                H  == SubSeq(coded, DB_size + 1, DB_size + HASH_SIZE)
                m  == mgf1_mask(hash, H, SubSeq(coded, 1, DB_size))
                DB == ClearTopBits(m.out, key_bits)
                salt_offset == SeparatorScan(DB)
            IN  IF salt_offset = NoOffset
                THEN VerifyReject("separator", m.hash, 1, DB)
                ELSE IF salt_offset = 0
                THEN VerifyReject("no_separator", m.hash, 1, DB)
                ELSE VerifyCompare(m.hash, DB, H, message_hash, salt_offset)

(* ------------------------------ adapters ------------------------------ *)

VARIABLES
    m_kind,               \* "PSSR" or "PSSR_Raw": the adapter constructed
    m_salt_size,          \* its salt size
    m_required_salt_len,  \* whether it was constructed with a salt size
    m_hash,               \* input its owned hash holds since the last final()
    m_msg,                \* PSSR_Raw's buffer
    fed,                  \* history: bytes passed to update since the last raw_data
    offCycle,             \* history: an engine call since the last raw_data
                          \* started with input pending in the hash
    wire,                 \* the signature in flight: the block the last successful
                          \* encoding_of returned, the digest and the bit length
                          \* it was made for
    last                  \* the most recent call: arguments, entry state, result

vars == << m_kind, m_salt_size, m_required_salt_len, m_hash, m_msg, fed,
           offCycle, wire, last >>

Kinds == {"PSSR", "PSSR_Raw"}

NoBytes == <<>>

Call(op, msg, bits, coded, salt, ret, eng) ==
    [op |-> op, msg |-> msg, bits |-> bits, coded |-> coded, salt |-> salt,
     hash0 |-> m_hash, fed0 |-> fed, off0 |-> offCycle, ret |-> ret, eng |-> eng]

\* results: nothing, a byte vector, a boolean, or Encoding_Error thrown
RetVoid       == [kind |-> "void", bytes |-> NoBytes, ok |-> FALSE]
RetBytes(b)   == [kind |-> "bytes", bytes |-> b, ok |-> FALSE]
RetBool(b)    == [kind |-> "bool", bytes |-> NoBytes, ok |-> b]
RetError      == [kind |-> "Encoding_Error", bytes |-> NoBytes, ok |-> FALSE]

\* PSSR::PSSR(hash), PSSR::PSSR(hash, salt_size), and the same of PSSR_Raw:
\* a new adapter around a fresh hash
Construct(kind, explicit, salt_size) ==
    /\ m_kind' = kind
    /\ m_salt_size' = IF explicit THEN salt_size ELSE HASH_SIZE
    /\ m_required_salt_len' = explicit
    /\ m_hash' = NoBytes
    /\ m_msg' = NoBytes
    /\ fed' = NoBytes
    /\ offCycle' = FALSE
    /\ last' = [Call("construct", NoBytes, 0, NoBytes, NoBytes, RetVoid, 0)
                   EXCEPT !.hash0 = NoBytes, !.fed0 = NoBytes, !.off0 = FALSE]
    /\ UNCHANGED wire

\* PSSR::update feeds the hash; PSSR_Raw::update appends to m_msg
Update(input) ==
    /\ Len(fed) + Len(input) <= MaxFed
    /\ IF m_kind = "PSSR"
       THEN /\ m_hash' = HashUpdate(NewHash(m_hash), input).buf
            /\ UNCHANGED m_msg
       ELSE /\ m_msg' = m_msg \o input
            /\ UNCHANGED m_hash
    /\ fed' = fed \o input
    /\ last' = Call("update", input, 0, NoBytes, NoBytes, RetVoid, 0)
    /\ UNCHANGED << m_kind, m_salt_size, m_required_salt_len, offCycle, wire >>

\* PSSR::raw_data: m_hash->final()
PSSR_raw_data(hash) ==
    LET f == HashFinal(NewHash(hash))
    IN  [ret |-> RetBytes(f.digest), hash |-> f.hash.buf, msg |-> NoBytes]

\* mutant: the length is checked before the swap, so a failure keeps the buffer
PSSR_Raw_raw_data_KeepOnError(msg) ==
    IF Len(msg) # HASH_SIZE
    THEN [ret |-> RetError, msg |-> msg]
    ELSE [ret |-> RetBytes(msg), msg |-> NoBytes]

\* PSSR_Raw::raw_data: swap the buffer out, throw unless it is HASH_SIZE long
PSSR_Raw_raw_data(msg) ==
    LET ret == msg
    IN  [ret |-> IF Len(ret) # HASH_SIZE THEN RetError ELSE RetBytes(ret),
         msg |-> NoBytes]

RawData ==
    /\ IF m_kind = "PSSR"
       THEN LET r == PSSR_raw_data(m_hash)
            IN  /\ m_hash' = r.hash
                /\ last' = Call("raw_data", NoBytes, 0, NoBytes, NoBytes, r.ret, 0)
                /\ UNCHANGED m_msg
       ELSE LET r == PSSR_Raw_raw_data(m_msg)
            IN  /\ m_msg' = r.msg
                /\ last' = Call("raw_data", NoBytes, 0, NoBytes, NoBytes, r.ret, 0)
                /\ UNCHANGED m_hash
    /\ fed' = NoBytes
    /\ offCycle' = FALSE
    /\ UNCHANGED << m_kind, m_salt_size, m_required_salt_len, wire >>

\* PSSR::encoding_of and PSSR_Raw::encoding_of: salt = rng.random_vec(m_salt_size),
\* then pss_encode on the owned hash
EncodingOf(msg, output_bits, salt) ==
    /\ Len(salt) = m_salt_size
    /\ LET r == pss_encode(NewHash(m_hash), msg, salt, output_bits)
       IN  /\ m_hash' = r.hash.buf
           /\ wire' = IF r.err = "none"
                      THEN [em |-> r.EM, msg |-> msg, bits |-> output_bits]
                      ELSE wire
           /\ last' = Call("encoding_of", msg, output_bits, NoBytes, salt,
                           IF r.err = "none" THEN RetBytes(r.EM) ELSE RetError, r)
    /\ offCycle' = (offCycle \/ m_hash # NoBytes)
    /\ UNCHANGED << m_kind, m_salt_size, m_required_salt_len, m_msg, fed >>

\* mutant: the configured salt size is not compared
SaltPolicy_Ignored(ok, salt_size, required, configured) == ok

\* if(m_required_salt_len && salt_size != m_salt_size) return false; return ok;
SaltPolicy(ok, salt_size, required, configured) ==
    IF required /\ salt_size # configured THEN FALSE ELSE ok

\* PSSR::verify and PSSR_Raw::verify
AdapterVerify(hash, required, configured, coded, raw, key_bits) ==
    LET r         == pss_verify(hash, coded, raw, key_bits)
        salt_size == IF r.wrote THEN r.salt_size ELSE 0
    IN  [ret |-> RetBool(SaltPolicy(r.ok, salt_size, required, configured)),
         eng |-> r]

Verify(coded, raw, key_bits) ==
    /\ LET v == AdapterVerify(NewHash(m_hash), m_required_salt_len, m_salt_size,
                              coded, raw, key_bits)
       IN  /\ m_hash' = v.eng.hash.buf
           /\ last' = Call("verify", raw, key_bits, coded, NoBytes, v.ret, v.eng)
    /\ offCycle' = (offCycle \/ m_hash # NoBytes)
    /\ UNCHANGED << m_kind, m_salt_size, m_required_salt_len, m_msg, fed, wire >>

(* ------------------------------- inputs ------------------------------- *)

\* the longest salt an adapter of the model draws
MaxSaltLen == IF MaxSalt > HASH_SIZE THEN MaxSalt ELSE HASH_SIZE

\* the smallest output_bits that holds every salt of the model
BigBits == 8 * HASH_SIZE + 8 * MaxSaltLen + 9

\* the floor of verify
MinKeyBits == 8 * HASH_SIZE + 9

BitsRange == (MinKeyBits - 1) .. (BigBits + ExtraBits)

SaltBytes == {1, 165}

Salts(n, alphabet) == [1..n -> alphabet]

\* digests a caller passes: two of the right length, two of a wrong one
MsgA == [i \in 1..HASH_SIZE |-> 16 * i]
MsgB == [i \in 1..HASH_SIZE |-> IF i = 1 THEN 1 ELSE TRAILER]
MsgShort == SubSeq(MsgA, 1, HASH_SIZE - 1)
MsgLong  == MsgA \o <<7>>

\* what update is called with
Chunks == { <<7>>, <<8, 9>> }

\* a block with one bit of one byte flipped
FlipBit(block, i, bit) == [block EXCEPT ![i] = XorByte(@, Pow2(bit))]

\* blocks a verifier may receive in place of block w: w itself, w with one bit
\* flipped, w without its first byte (what a big-integer conversion does to a
\* leading zero byte), w with a zero byte in front
Tampered(w) ==
    {w, Tail(w), <<0>> \o w}
        \cup {FlipBit(w, i, 7) : i \in 1..Len(w)}
        \cup {FlipBit(w, i, 0) : i \in 1..Len(w)}

\* a block put together by hand: the data block DB masked under H, H, a last byte
Forge(DB, H, trailer) ==
    mgf1_mask(NewHash(NoBytes), H, DB).out \o H \o <<trailer>>

ForgeDBs == UNION {[1..n -> {0, 1, 2}] : n \in 1..(MaxSalt + 2)}

\* a valid signature of MsgA made elsewhere, for BigBits, with a one-byte salt
Signed == pss_encode(NewHash(NoBytes), MsgA, <<165>>, BigBits).EM

\* the length of its data block: the salt is its last byte, the 0x01 the one
\* before
SignedDB == CeilBytes(BigBits) - HASH_SIZE - 1

\* blocks that pss_verify turns down at each of its checks
Rejected ==
    { <<TRAILER>>,
      FlipBit(Signed, 1, 7),
      FlipBit(Signed, SignedDB - 1, 0),
      FlipBit(Signed, SignedDB, 0),
      ClearTopBits(Forge(Zeros(SignedDB), MsgA, TRAILER), BigBits) }

NoCall ==
    [op |-> "none", msg |-> NoBytes, bits |-> 0, coded |-> NoBytes,
     salt |-> NoBytes, hash0 |-> NoBytes, fed0 |-> NoBytes, off0 |-> FALSE,
     ret |-> RetVoid, eng |-> 0]

NoWire == [em |-> NoBytes, msg |-> NoBytes, bits |-> 0]

(* --------------------------- specifications --------------------------- *)

\* a newly constructed adapter of either kind, with or without a salt size
Init ==
    /\ m_kind \in Kinds
    /\ m_required_salt_len \in BOOLEAN
    /\ m_salt_size = (IF m_required_salt_len THEN MaxSalt ELSE HASH_SIZE)
    /\ m_hash = NoBytes
    /\ m_msg = NoBytes
    /\ fed = NoBytes
    /\ offCycle = FALSE
    /\ wire = NoWire
    /\ last = NoCall

\* the adapter's life: its calls in any order, on small inputs
Next ==
    \/ \E input \in Chunks : Update(input)
    \/ RawData
    \/ \E msg \in {MsgA, MsgShort},
          bits \in {BigBits, 8 * HASH_SIZE + 8 * m_salt_size + 8},
          salt \in Salts(m_salt_size, {165}) :
          EncodingOf(msg, bits, salt)
    \/ \E coded \in {wire.em, Signed} \cup Rejected :
          Verify(coded, MsgA, BigBits)
    \/ Verify(Signed, MsgB, MinKeyBits - 1)

Spec == Init /\ [][Next]_vars

\* one signature made and then verified, on wide inputs: the engine's pure
\* functions. The verifier may be another adapter than the signer.
InitEngine ==
    /\ m_kind \in Kinds
    /\ m_required_salt_len \in BOOLEAN
    /\ m_salt_size \in (IF m_required_salt_len THEN 0..MaxSalt ELSE {HASH_SIZE})
    /\ m_hash = NoBytes
    /\ m_msg = NoBytes
    /\ fed = NoBytes
    /\ offCycle = FALSE
    /\ wire = NoWire
    /\ last = NoCall

NextEngine ==
    \/ /\ last.op = "none"
       /\ \E msg \in {MsgA, MsgB, MsgShort, MsgLong}, bits \in BitsRange,
             salt \in Salts(m_salt_size, SaltBytes) :
             EncodingOf(msg, bits, salt)
    \/ /\ last.op = "encoding_of"
       /\ last.ret.kind = "bytes"
       /\ \E coded \in Tampered(wire.em), raw \in {wire.msg, MsgB, MsgLong},
             key_bits \in {wire.bits - 1, wire.bits, wire.bits + 1, wire.bits + 8} :
             Verify(coded, raw, key_bits)
    \/ /\ last.op = "encoding_of"
       /\ last.ret.kind = "bytes"
       /\ \E kind \in Kinds, explicit \in BOOLEAN, s \in 0..MaxSalt :
             Construct(kind, explicit, s)
    \/ /\ last.op = "construct"
       /\ Verify(wire.em, wire.msg, wire.bits)
    \/ /\ last.op = "none"
       /\ \E DB \in ForgeDBs,
             H \in {MsgA, HashMPrime(NewHash(NoBytes), MsgA, <<2>>).digest},
             trailer \in {TRAILER, 0}, slack \in {0, 1, 7, 9} :
             Verify(Forge(DB, H, trailer), MsgA, 8 * (Len(DB) + HASH_SIZE + 1) - slack)
    \/ /\ last.op = "none"
       /\ \E coded \in {NoBytes, <<TRAILER>>, <<1, TRAILER>>}, raw \in {MsgA, MsgShort},
             key_bits \in {MinKeyBits - 1, MinKeyBits, BigBits} :
             Verify(coded, raw, key_bits)

SpecEngine == InitEngine /\ [][NextEngine]_vars

(* ------------------------------- claims ------------------------------- *)

\* C1 (round trip): a block pss_encode made for a digest, a salt and
\* output_bits at or above the floor (on a hash with no input pending, as it
\* is throughout SpecEngine), verified against the same digest with
\* key_bits = output_bits, makes pss_verify return true.
C1_RoundTrip ==
    (/\ last.op = "verify"
     /\ wire.em # NoBytes
     /\ last.coded = wire.em
     /\ last.msg = wire.msg
     /\ last.bits = wire.bits)
        => last.eng.ok

C1_Witness ==
    /\ last.op = "verify"
    /\ wire.em # NoBytes
    /\ last.coded = wire.em
    /\ last.msg = wire.msg
    /\ last.bits = wire.bits
    /\ last.bits % 8 # 0
    /\ Len(last.eng.salt) = 1
    /\ Len(wire.em) > HASH_SIZE + 3
    /\ last.eng.ok

\* C2 (encode errors): encoding fails with Encoding_Error exactly when the
\* digest is not HASH_SIZE long or output_bits is below
\* 8*HASH_SIZE + 8*SALT_SIZE + 9; every other call returns a block.
C2_EncodeErrorExact ==
    last.op = "encoding_of" =>
        LET bad == \/ Len(last.msg) # HASH_SIZE
                   \/ last.bits < 8 * HASH_SIZE + 8 * Len(last.salt) + 9
        IN  /\ bad => last.ret = RetError
            /\ ~bad => /\ last.ret.kind = "bytes"
                       /\ Len(last.ret.bytes) = CeilBytes(last.bits)

C2_Witness ==
    /\ last.op = "encoding_of"
    /\ Len(last.msg) = HASH_SIZE
    /\ Len(last.salt) = 1
    /\ last.bits = 8 * HASH_SIZE + 8 * Len(last.salt) + 8
    /\ last.ret = RetError

\* C3 (early rejection): verify returns false and makes no hash update, no
\* hash final and no MGF1 call when key_bits < 8*HASH_SIZE + 9, or the digest
\* is not HASH_SIZE long, or the block has 0, 1 or more than ceil(key_bits/8)
\* bytes.
C3_EarlyReject ==
    (/\ last.op = "verify"
     /\ \/ last.bits < 8 * HASH_SIZE + 9
        \/ Len(last.msg) # HASH_SIZE
        \/ Len(last.coded) <= 1
        \/ Len(last.coded) > CeilBytes(last.bits))
        => /\ last.ret = RetBool(FALSE)
           /\ last.eng.hash.calls = 0
           /\ last.eng.mgfCalls = 0
           /\ m_hash = last.hash0

C3_Witness ==
    /\ last.op = "verify"
    /\ last.bits >= 8 * HASH_SIZE + 9
    /\ Len(last.msg) = HASH_SIZE
    /\ Len(last.coded) = CeilBytes(last.bits) + 1
    /\ last.coded[Len(last.coded)] = TRAILER
    /\ last.ret = RetBool(FALSE)

\* C4 (trailer): a block whose last byte is not 0xBC is rejected, whatever
\* the rest of it, the digest and key_bits are.
C4_Trailer ==
    (/\ last.op = "verify"
     /\ Len(last.coded) >= 1
     /\ last.coded[Len(last.coded)] # TRAILER)
        => /\ ~last.ret.ok
           /\ ~last.eng.ok

C4_Witness ==
    /\ last.op = "verify"
    /\ wire.em # NoBytes
    /\ last.coded = FlipBit(wire.em, Len(wire.em), 0)
    /\ last.msg = wire.msg
    /\ last.bits = wire.bits
    /\ ~last.ret.ok

\* C5 (salt-size policy): an adapter constructed with a salt size verifies
\* true only if the engine's comparison matched and the recovered salt has the
\* configured length, so a valid block with another salt length gives false;
\* an adapter constructed without one returns the engine's result.
C5_SaltPolicy ==
    last.op = "verify" =>
        IF m_required_salt_len
        THEN /\ last.ret.ok => (last.eng.ok /\ last.eng.salt_size = m_salt_size)
             /\ (last.eng.ok /\ last.eng.salt_size # m_salt_size) => ~last.ret.ok
        ELSE last.ret.ok = last.eng.ok

C5_Witness ==
    /\ last.op = "verify"
    /\ m_required_salt_len
    /\ last.coded = wire.em
    /\ last.eng.ok
    /\ last.eng.salt_size # m_salt_size
    /\ last.ret = RetBool(FALSE)

\* the index of the first non-zero byte of DB, 0 when there is none
FirstNonZero(DB) ==
    LET nz == {i \in 1..Len(DB) : DB[i] # 0}
    IN  IF nz = {} THEN 0 ELSE CHOOSE i \in nz : \A k \in nz : i <= k

\* C6 (separator scan): with DB unmasked and its top bits cleared, verify
\* returns false when DB is all zero or its first non-zero byte is not 0x01;
\* otherwise the recovered salt is the bytes of DB after that first 0x01.
C6_SeparatorScan ==
    (/\ last.op = "verify"
     /\ last.eng.stage \in {"separator", "no_separator", "compare"})
        => LET DB == last.eng.DB
               k  == FirstNonZero(DB)
           IN  /\ Len(DB) = CeilBytes(last.bits) - HASH_SIZE - 1
               /\ IF k = 0 \/ DB[k] # 1
                  THEN ~last.eng.ok /\ ~last.ret.ok /\ last.eng.stage # "compare"
                  ELSE /\ last.eng.stage = "compare"
                       /\ last.eng.salt = SubSeq(DB, k + 1, Len(DB))
                       /\ last.eng.salt_size = Len(DB) - k

C6_Witness ==
    /\ last.op = "verify"
    /\ last.eng.stage = "separator"
    /\ \E i \in 1..Len(last.eng.DB) : last.eng.DB[i] = 1
    /\ ~last.ret.ok

\* C8 (encode layout): the block returned has ceil(output_bits/8) bytes, ends
\* in 0xBC, holds H = Hash(0x00*8 || digest || salt) before the trailer, and
\* before H holds (zeros || 0x01 || salt) XOR MGF1(H) with the top
\* 8*L - output_bits bits of byte 0 cleared (so the block as a big-endian
\* number is below 2^output_bits).
C8_EncodeLayout ==
    (last.op = "encoding_of" /\ last.ret.kind = "bytes") =>
        LET EM    == last.ret.bytes
            L     == CeilBytes(last.bits)
            n     == L - HASH_SIZE - 1
            H     == Digest(Zeros(8) \o last.msg \o last.salt)
            mask  == mgf1_mask(NewHash(NoBytes), H, Zeros(n)).out
            plain == Zeros(n - Len(last.salt) - 1) \o <<1>> \o last.salt
            top   == 8 * L - last.bits
        IN  /\ Len(EM) = L
            /\ EM[L] = TRAILER
            /\ SubSeq(EM, n + 1, L - 1) = H
            /\ EM[1] = XorByte(plain[1], mask[1]) % Pow2(8 - top)
            /\ \A i \in 2..n : EM[i] = XorByte(plain[i], mask[i])
            /\ EM[1] < Pow2(8 - top)

C8_Witness ==
    /\ last.op = "encoding_of"
    /\ last.ret.kind = "bytes"
    /\ Len(last.salt) = 1
    /\ last.bits % 8 = 1
    /\ Len(last.ret.bytes) > HASH_SIZE + 3
    /\ last.ret.bytes[Len(last.ret.bytes)] = TRAILER

\* C9 (significant bits): with the block left-padded to ceil(key_bits/8)
\* bytes, verify returns false when any of the top 8*ceil(key_bits/8) - key_bits
\* bits of its first byte is set; a first byte with at least that many leading
\* zero bits passes this check.
C9_SignificantBits ==
    (/\ last.op = "verify"
     /\ Len(last.coded) >= 1
     /\ Len(last.coded) <= CeilBytes(last.bits))
        => LET KB    == CeilBytes(last.bits)
               first == IF Len(last.coded) < KB THEN 0 ELSE last.coded[1]
               top   == 8 * KB - last.bits
               pre   == /\ last.bits >= 8 * HASH_SIZE + 9
                        /\ Len(last.msg) = HASH_SIZE
                        /\ Len(last.coded) > 1
                        /\ last.coded[Len(last.coded)] = TRAILER
           IN  /\ first >= Pow2(8 - top) => ~last.ret.ok
               /\ (pre /\ first >= Pow2(8 - top)) => last.eng.stage = "top_bits"
               /\ first < Pow2(8 - top) => last.eng.stage # "top_bits"

C9_Witness ==
    /\ last.op = "verify"
    /\ last.eng.stage = "top_bits"
    /\ Len(last.coded) = CeilBytes(last.bits)
    /\ last.coded[1] = Pow2(8 - (8 * CeilBytes(last.bits) - last.bits))
    /\ ~last.ret.ok

\* C7 (raw buffering): PSSR_Raw's buffer is the concatenation, in call order,
\* of the bytes passed to update since the last raw_data; raw_data returns it
\* when it is HASH_SIZE long and fails with Encoding_Error otherwise, and
\* leaves the buffer empty either way.
C7_RawBuffer ==
    m_kind = "PSSR_Raw" =>
        /\ m_msg = fed
        /\ last.op = "raw_data" =>
              /\ m_msg = NoBytes
              /\ last.ret = (IF Len(last.fed0) = HASH_SIZE
                             THEN RetBytes(last.fed0)
                             ELSE RetError)

C7_Witness ==
    /\ m_kind = "PSSR_Raw"
    /\ last.op = "raw_data"
    /\ Len(last.fed0) > 0
    /\ Len(last.fed0) # HASH_SIZE
    /\ last.ret = RetError
    /\ m_msg = NoBytes

\* C10 (hash clean after every engine call): an encoding_of or verify that
\* starts with no input pending in the owned hash ends with none pending, on
\* every return path; so while no engine call started with input pending,
\* the hash of a PSSR adapter holds exactly the bytes passed to update since
\* the last raw_data, and raw_data returns their digest.
C10_HashClean ==
    /\ (last.op \in {"encoding_of", "verify"} /\ last.hash0 = NoBytes)
          => m_hash = NoBytes
    /\ (m_kind = "PSSR" /\ ~offCycle) => m_hash = fed
    /\ (m_kind = "PSSR" /\ last.op = "raw_data" /\ ~last.off0)
          => last.ret = RetBytes(Digest(last.fed0))

C10_Witness ==
    /\ m_kind = "PSSR"
    /\ last.op = "verify"
    /\ fed # NoBytes
    /\ wire.em # NoBytes
    /\ last.hash0 = NoBytes
    /\ last.eng.stage = "separator"
    /\ m_hash = NoBytes

====
